---- MODULE Spec2Model ----
(***************************************************************************)
(* A model of the Anuwat.AI backend (src/server.js): the per-client rate   *)
(* limiting middleware and the two handlers mounted behind it, the chat    *)
(* proxy (/api/chat) and the image URL builder (/api/generate-image).      *)
(*                                                                         *)
(* Node runs every synchronous stretch of JavaScript to completion, so one *)
(* action of the model is one such stretch: the arrival of a request runs  *)
(* rateLimitMiddleware and, through next(), the handler up to its first    *)
(* await; every later action resumes one suspended chat handler at the     *)
(* await it is parked on and runs it to its next await or to its response. *)
(***************************************************************************)
EXTENDS Integers, Sequences, FiniteSets, Bags, TLC

(***************************************************************************)
(* Bounds of the model.                                                    *)
(***************************************************************************)
\* server.js:120 sets RATE_LIMIT = 50; the gate is checked with a scaled-down
\* limit, which every formula below reads through this name only.
RATE_LIMIT == 2
\* The clock (Date.now()) at the first step, in ms since the epoch:
\* 1970-01-01T23:59:59.999Z, so that the windows of the model cross a day.
StartTime == 86399999
\* How many times the clock advances.
MaxAdvance == 2
\* How many chat handlers can be suspended at an await at once (one more
\* where a window is to begin while a handler of the last one waits).
MaxInFlight == 1
\* How long the prompts drawn from PromptChars are.
MaxPromptLen == 3
\* Up to what number the rejections of a blocked client are counted.
MaxRejections == 2

WINDOW_MS == 60 * 60 * 1000

Clients == {"ip1", "ip2"}
\* The client whose upstream calls are counted.
Observed == "ip2"

(***************************************************************************)
(* JavaScript values, as far as the handlers look at them.  A string is    *)
(* the sequence of its characters, an array the sequence of its elements,  *)
(* an object the function from its keys to their values.                   *)
(***************************************************************************)
Undefined == [kind |-> "undefined"]
Null == [kind |-> "null"]
Bool(b) == [kind |-> "boolean", val |-> b]
Num(n) == [kind |-> "number", val |-> n]
Str(s) == [kind |-> "string", val |-> s]
Arr(s) == [kind |-> "array", val |-> s]
Obj(f) == [kind |-> "object", val |-> f]
EmptyObj == [kind |-> "object", val |-> [k \in {} |-> Undefined]]

\* ToBoolean: undefined, null, false, 0 and "" are falsy, everything else
\* (every array and object included) is truthy.
Truthy(v) ==
    CASE v.kind = "undefined" -> FALSE
      [] v.kind = "null" -> FALSE
      [] v.kind = "boolean" -> v.val
      [] v.kind = "number" -> v.val # 0
      [] v.kind = "string" -> v.val # <<>>
      [] OTHER -> TRUE

\* Array.isArray
IsArray(v) == v.kind = "array"

\* base.key and base[i] throw a TypeError on undefined and null.
Throws(base) == base.kind \in {"undefined", "null"}

\* base.key for a base that does not throw: an own property of an object,
\* undefined on anything else the model holds.
Prop(base, key) ==
    IF base.kind = "object" /\ key \in DOMAIN base.val THEN base.val[key]
    ELSE Undefined

\* base[0] for a base that does not throw: the first element of an array,
\* the first character of a string, undefined otherwise.
First(base) ==
    CASE base.kind = "array" /\ Len(base.val) > 0 -> base.val[1]
      [] base.kind = "string" /\ Len(base.val) > 0 -> Str(<<base.val[1]>>)
      [] OTHER -> Undefined

(***************************************************************************)
(* new Date(ms).toISOString(): "YYYY-MM-DDTHH:mm:ss.sssZ", held as the     *)
(* numbers its fields print.                                               *)
(***************************************************************************)
MS_PER_DAY == 24 * 60 * 60 * 1000

\* The civil date of a day number counted from 1970-01-01.
CivilFromDays(days) ==
    LET z == days + 719468
        era == z \div 146097
        doe == z - era * 146097
        yoe == (doe - doe \div 1460 + doe \div 36524 - doe \div 146096) \div 365
        doy == doe - (365 * yoe + yoe \div 4 - yoe \div 100)
        mp == (5 * doy + 2) \div 153
        d == doy - (153 * mp + 2) \div 5 + 1
        m == IF mp < 10 THEN mp + 3 ELSE mp - 9
        y == yoe + era * 400 + (IF m <= 2 THEN 1 ELSE 0)
    IN  [year |-> y, month |-> m, day |-> d]

\* A mutant: the timestamp printed to the second, its milliseconds dropped.
toISOStringSeconds(ms) ==
    LET date == CivilFromDays(ms \div MS_PER_DAY)
        t == ms % MS_PER_DAY
    IN  [year |-> date.year, month |-> date.month, day |-> date.day,
         hour |-> t \div 3600000, minute |-> (t \div 60000) % 60,
         second |-> (t \div 1000) % 60, milli |-> 0]

toISOString(ms) ==
    LET date == CivilFromDays(ms \div MS_PER_DAY)
        t == ms % MS_PER_DAY
    IN  [year |-> date.year, month |-> date.month, day |-> date.day,
         hour |-> t \div 3600000, minute |-> (t \div 60000) % 60,
         second |-> (t \div 1000) % 60, milli |-> t % 1000]

\* What a caller computes from the reported time: Date.parse of the string.
DaysFromCivil(y0, m, d) ==
    LET y == IF m <= 2 THEN y0 - 1 ELSE y0
        era == y \div 400
        yoe == y - era * 400
        mp == IF m > 2 THEN m - 3 ELSE m + 9
        doy == (153 * mp + 2) \div 5 + d - 1
        doe == yoe * 365 + yoe \div 4 - yoe \div 100 + doy
    IN  era * 146097 + doe - 719468

DateParse(iso) ==
    DaysFromCivil(iso.year, iso.month, iso.day) * MS_PER_DAY
        + iso.hour * 3600000 + iso.minute * 60000 + iso.second * 1000 + iso.milli

(***************************************************************************)
(* Response texts.  The texts of server.js are Thai; each is named here by *)
(* the line that holds it.                                                 *)
(***************************************************************************)
MSG_RATE_LIMITED == "rate limit exceeded, wait one hour"            \* :142
MSG_NO_API_KEY == "Server configuration error: API Key not found"   \* :157
MSG_MESSAGES_REQUIRED == "Invalid request: messages array required" \* :166
MSG_UPSTREAM_ERROR == "error connecting to the AI"                  \* :191
MSG_AUTH_FAILURE == "authentication problem, contact the admin"     \* :193
MSG_UPSTREAM_OVERLOADED == "AI overloaded, retry in a moment"       \* :195
MSG_BAD_QUESTION == "invalid question, try again"                   \* :197
MSG_INCOMPLETE_DATA == "incomplete data received from the AI"       \* :208
MSG_SERVER_ERROR == "internal server error"                         \* :217
MSG_PROMPT_REQUIRED == "Prompt is required"                         \* :229
MSG_IMAGE_ERROR == "error while creating the image"                 \* :246

\* No response sent (by this step).
NoResponse == [sent |-> FALSE]
\* res.status(status).json(body)
Send(status, body) == [sent |-> TRUE, status |-> status, body |-> body]

(***************************************************************************)
(* The gate: requestCounts and rateLimitMiddleware (server.js:119-149).    *)
(* requestCounts is a Map, here the function from its keys to its values.  *)
(***************************************************************************)
MapHas(map, key) == key \in DOMAIN map
MapSet(map, key, value) ==
    [k \in DOMAIN map \cup {key} |-> IF k = key THEN value ELSE map[k]]

\* A mutant: the record is made without its window.
NewRecordNoWindow(t) == [count |-> 1, resetTime |-> t]
\* { count: 1, resetTime: now + WINDOW_MS }
NewRecord(t) == [count |-> 1, resetTime |-> t + WINDOW_MS]

\* A mutant: the window already counts as over at its last instant.
WindowOverAtResetTime(t, clientData) == t >= clientData.resetTime
\* now > clientData.resetTime
WindowOver(t, clientData) == t > clientData.resetTime

\* A mutant: the comparison lets one request too many through.
LimitReachedOffByOne(clientData) == clientData.count > RATE_LIMIT
\* clientData.count >= RATE_LIMIT
LimitReached(clientData) == clientData.count >= RATE_LIMIT

\* The body of the 429 response.
RejectionBody(clientData) ==
    [error |-> MSG_RATE_LIMITED, resetTime |-> toISOString(clientData.resetTime)]

\* A mutant: a rejected request is counted too.
CountedBeforeCheck(counts, clientIP, t) ==
    IF ~MapHas(counts, clientIP) \/ WindowOver(t, counts[clientIP])
    THEN [requestCounts |-> MapSet(counts, clientIP, NewRecord(t)),
          next |-> TRUE, res |-> NoResponse]
    ELSE LET clientData == [counts[clientIP] EXCEPT !.count = @ + 1]
         IN  [requestCounts |-> MapSet(counts, clientIP, clientData),
              next |-> clientData.count <= RATE_LIMIT,
              res |-> IF clientData.count <= RATE_LIMIT THEN NoResponse
                      ELSE Send(429, RejectionBody(clientData))]

\* A mutant: inside an open window a request is let through uncounted.
AdmittedUncounted(counts, clientIP, t) ==
    IF ~MapHas(counts, clientIP) \/ WindowOver(t, counts[clientIP])
    THEN [requestCounts |-> MapSet(counts, clientIP, NewRecord(t)),
          next |-> TRUE, res |-> NoResponse]
    ELSE IF LimitReached(counts[clientIP])
    THEN [requestCounts |-> counts, next |-> FALSE,
          res |-> Send(429, RejectionBody(counts[clientIP]))]
    ELSE [requestCounts |-> counts, next |-> TRUE, res |-> NoResponse]

\* rateLimitMiddleware(req, res, next) for the client clientIP at the time t
\* read from Date.now(): the new value of requestCounts, whether next() is
\* called, and the response sent when it is not.
rateLimitMiddleware(counts, clientIP, t) ==
    IF ~MapHas(counts, clientIP)
    THEN [requestCounts |-> MapSet(counts, clientIP, NewRecord(t)),
          next |-> TRUE, res |-> NoResponse]
    ELSE LET clientData == counts[clientIP]
         IN  IF WindowOver(t, clientData)
             THEN [requestCounts |-> MapSet(counts, clientIP, NewRecord(t)),
                   next |-> TRUE, res |-> NoResponse]
             ELSE IF LimitReached(clientData)
             THEN [requestCounts |-> counts, next |-> FALSE,
                   res |-> Send(429, RejectionBody(clientData))]
             ELSE [requestCounts |->
                       MapSet(counts, clientIP,
                              [clientData EXCEPT !.count = @ + 1]),
                   next |-> TRUE, res |-> NoResponse]

(***************************************************************************)
(* The chat handler, app.post('/api/chat') (server.js:152-221), cut at its *)
(* awaits.  Each piece yields the response it sends, or NoResponse and the *)
(* await it suspends on.                                                   *)
(***************************************************************************)
Respond(res) == [res |-> res, pc |-> "done"]
Suspend(pc) == [res |-> NoResponse, pc |-> pc]

\* A mutant: the catch block hands out error.message in every environment.
chatCatchAlwaysDetails(env, message) ==
    Send(500, [error |-> MSG_SERVER_ERROR, details |-> message])

\* The catch block (214-220): details is error.message in development and
\* undefined otherwise, and JSON.stringify drops an undefined property.
chatCatch(env, message) ==
    Send(500, IF env = "development"
              THEN [error |-> MSG_SERVER_ERROR, details |-> message]
              ELSE [error |-> MSG_SERVER_ERROR])

\* A mutant: the messages are validated before the API key is looked at.
chatEntryValidatesFirst(key, body) ==
    LET messages == Prop(body, "messages")
    IN  IF ~Truthy(messages) \/ ~IsArray(messages)
        THEN Respond(Send(400, [error |-> MSG_MESSAGES_REQUIRED]))
        ELSE IF ~Truthy(key)
        THEN Respond(Send(500, [error |-> MSG_NO_API_KEY]))
        ELSE Suspend("import")

\* Lines 154-171: the key check, the input check, then await import(...).
chatEntry(key, body) ==
    IF ~Truthy(key)
    THEN Respond(Send(500, [error |-> MSG_NO_API_KEY]))
    ELSE LET messages == Prop(body, "messages")
         IN  IF ~Truthy(messages) \/ ~IsArray(messages)
             THEN Respond(Send(400, [error |-> MSG_MESSAGES_REQUIRED]))
             ELSE Suspend("import")

\* response.ok
Ok(status) == 200 <= status /\ status <= 299

\* A mutant: the branches for 401 and 429 are swapped.
errorMessageSwapped(status) ==
    CASE status = 429 -> MSG_AUTH_FAILURE
      [] status = 401 -> MSG_UPSTREAM_OVERLOADED
      [] status = 400 -> MSG_BAD_QUESTION
      [] OTHER -> MSG_UPSTREAM_ERROR

\* Lines 191-198.
errorMessage(status) ==
    CASE status = 401 -> MSG_AUTH_FAILURE
      [] status = 429 -> MSG_UPSTREAM_OVERLOADED
      [] status = 400 -> MSG_BAD_QUESTION
      [] OTHER -> MSG_UPSTREAM_ERROR

\* A mutant: the upstream error body is handed to the caller.
chatUpstreamErrorRelayed(status, errorData) ==
    Send(status, [error |-> errorData])

\* Lines 188-200, once response.text() has resolved with errorData (which
\* only console.error reads).
chatUpstreamError(status, errorData) ==
    Send(status, [error |-> errorMessage(status)])

TYPE_ERROR_NULL == "Cannot read properties of null (reading 'choices')"

\* Lines 203-212, once response.json() has resolved with data.  Reading
\* data.choices throws on null; choices[0] and choices[0].message are only
\* read on a truthy base, so they cannot throw.
chatRelay(env, data) ==
    IF Throws(data) THEN chatCatch(env, TYPE_ERROR_NULL)
    ELSE IF ~Truthy(Prop(data, "choices"))
            \/ ~Truthy(First(Prop(data, "choices")))
            \/ ~Truthy(Prop(First(Prop(data, "choices")), "message"))
    THEN Send(500, [error |-> MSG_INCOMPLETE_DATA])
    ELSE Send(200, data)

(***************************************************************************)
(* The image handler, app.post('/api/generate-image') (224-249).  It has   *)
(* no await: it runs to its response inside next().                        *)
(***************************************************************************)
Letters ==
    {"a", "b", "c", "d", "e", "f", "g", "h", "i", "j", "k", "l", "m", "n",
     "o", "p", "q", "r", "s", "t", "u", "v", "w", "x", "y", "z", "A", "B",
     "C", "D", "E", "F", "G", "H", "I", "J", "K", "L", "M", "N", "O", "P",
     "Q", "R", "S", "T", "U", "V", "W", "X", "Y", "Z"}
Digits == {"0", "1", "2", "3", "4", "5", "6", "7", "8", "9"}
\* \w
WordChars == Letters \cup Digits \cup {"_"}
\* \s, and what trim() removes (of the characters the model draws from)
WhiteSpace == {" ", "\t", "\n", "\r"}

\* [^\w\s,-] does not match ch
Kept(ch) == ch \in WordChars \cup WhiteSpace \cup {",", "-"}

RECURSIVE TrimStart(_)
TrimStart(s) ==
    IF s # <<>> /\ Head(s) \in WhiteSpace THEN TrimStart(Tail(s)) ELSE s
RECURSIVE TrimEnd(_)
TrimEnd(s) ==
    IF s # <<>> /\ s[Len(s)] \in WhiteSpace
    THEN TrimEnd(SubSeq(s, 1, Len(s) - 1)) ELSE s
\* A mutant: only the leading whitespace is removed.
TrimLeadingOnly(s) == TrimStart(s)
\* trim()
Trim(s) == TrimEnd(TrimStart(s))

\* prompt.replace(/[^\w\s,-]/g, '').trim()
cleanPrompt(prompt) == Trim(SelectSeq(prompt, Kept))

\* encodeURIComponent, on the characters cleanPrompt can leave: the word
\* characters and the hyphen are unreserved, the rest is percent-encoded.
EncodeChar(ch) ==
    CASE ch = " " -> "%20"
      [] ch = "\t" -> "%09"
      [] ch = "\n" -> "%0A"
      [] ch = "\r" -> "%0D"
      [] ch = "," -> "%2C"
      [] OTHER -> ch
encodeURIComponent(s) == [i \in 1..Len(s) |-> EncodeChar(s[i])]

URL_HEAD == "https://image.pollinations.ai/prompt/"
URL_TAIL == "?width=512&height=512&nologo=true&enhance=true"
apiUrl(clean) == <<URL_HEAD>> \o encodeURIComponent(clean) \o <<URL_TAIL>>

\* Lines 225-248.  Only a string has a replace method: on any other truthy
\* prompt the call throws a TypeError, which the catch block answers.
generateImage(body) ==
    LET prompt == Prop(body, "prompt")
    IN  IF ~Truthy(prompt)
        THEN Send(400, [error |-> MSG_PROMPT_REQUIRED])
        ELSE IF prompt.kind # "string"
        THEN Send(500, [error |-> MSG_IMAGE_ERROR])
        ELSE Send(200, [success |-> TRUE,
                        imageUrl |-> apiUrl(cleanPrompt(prompt.val)),
                        prompt |-> cleanPrompt(prompt.val)])

(***************************************************************************)
(* What the environment supplies.                                          *)
(***************************************************************************)
\* process.env.GROQ_API_KEY: unset, set to the empty string, or set.
ApiKeys == {Undefined, Str(<<>>), Str(<<"g", "s", "k">>)}
\* process.env.NODE_ENV
Environments == {"development", "production"}

\* req.body of a chat request, as express.json() leaves it: messages missing,
\* null, a string, an empty array, an array of one message.
UserMessage ==
    Obj([role |-> Str(<<"u", "s", "e", "r">>), content |-> Str(<<"h", "i">>)])
ChatBodies ==
    {EmptyObj,
     Obj([messages |-> Null]),
     Obj([messages |-> Str(<<"h", "i">>)]),
     Obj([messages |-> Arr(<<>>)]),
     Obj([messages |-> Arr(<<UserMessage>>)])}

\* req.body of an image request: prompt missing, "", 0, false, 7, "a cat!",
\* "!?" (nothing of it is kept) and " on-a, mat ".
ImageBodies ==
    {EmptyObj,
     Obj([prompt |-> Str(<<>>)]),
     Obj([prompt |-> Num(0)]),
     Obj([prompt |-> Bool(FALSE)]),
     Obj([prompt |-> Num(7)]),
     Obj([prompt |-> Str(<<"a", " ", "c", "a", "t", "!">>)]),
     Obj([prompt |-> Str(<<"!", "?">>)]),
     Obj([prompt |-> Str(<<" ", "o", "n", "-", "a", ",", " ", "m", "a", "t", " ">>)])}

\* The prompt of the documented example: "a cat! @#$ sitting, on-a-mat".
ExamplePrompt ==
    <<"a", " ", "c", "a", "t", "!", " ", "@", "#", "$", " ", "s", "i", "t",
      "t", "i", "n", "g", ",", " ", "o", "n", "-", "a", "-", "m", "a", "t">>
\* The characters short prompts are made of: a word character, whitespace,
\* a character the sanitizer removes, and the comma.
PromptChars == {"a", " ", "!", ","}
\* req.body of an image request with a string prompt: every prompt of up to
\* MaxPromptLen characters of PromptChars, and the example.
PromptBodies ==
    {Obj([prompt |-> Str(s)]) :
        s \in {ExamplePrompt}
               \cup UNION {[1..n -> PromptChars] : n \in 0..MaxPromptLen}}

\* The status of the upstream's answer.
Statuses == {200, 201, 400, 401, 429, 503}
\* The body of an upstream error answer, as response.text() yields it.
ErrorBodies == {"{error:{message:Invalid API Key}}"}
\* The body of an upstream answer, as response.json() parses it: null, {},
\* no element in choices, a first choice without message, a first choice
\* whose message is "", and a completion.
Completion ==
    Obj([choices |->
             Arr(<<Obj([message |->
                            Obj([role |-> Str(<<"a", "i">>),
                                 content |-> Str(<<"y", "o">>)])])>>)])
Payloads ==
    {Null,
     EmptyObj,
     Obj([choices |-> Arr(<<>>)]),
     Obj([choices |-> Arr(<<EmptyObj>>)]),
     Obj([choices |-> Arr(<<Obj([message |-> Str(<<>>)])>>)]),
     Completion}

\* error.message of the rejection an await can end with.
Faults(pc) ==
    CASE pc = "import" -> {"Cannot find package 'node-fetch'"}
      [] pc = "fetch" -> {"ECONNRESET", "ETIMEDOUT"}
      [] pc = "text" -> {"Premature close"}
      [] pc = "json" -> {"Unexpected token < in JSON at position 0"}

(***************************************************************************)
(* The state.                                                              *)
(***************************************************************************)
VARIABLES
    now,            \* Date.now()
    advances,       \* how often the clock has advanced
    GROQ_API_KEY,   \* server.js:116
    NODE_ENV,       \* process.env.NODE_ENV
    requestCounts,  \* server.js:119
    inflight,       \* the chat handlers suspended at an await, as a bag
    response,       \* the response the last step sent, if it sent one
    admitLog,       \* per client, the calls of next() of the last WINDOW_MS
    retryAfter,     \* per client, the resetTime that the 429 responses since
                    \* its last admission told it (0: none)
    rejections,     \* per client, how many 429 responses (up to
                    \* MaxRejections) told it that resetTime
    calls           \* of the observed client: how many calls of fetch for
                    \* its requests started inside the window of its present
                    \* record, and how many of its handlers were waiting for
                    \* import('node-fetch') when that window began

vars ==
    <<now, advances, GROQ_API_KEY, NODE_ENV, requestCounts, inflight,
      response, admitLog, retryAfter, rejections, calls>>

EmptyMap == [k \in {} |-> 0]
\* What the upstream has delivered to a request: nothing yet.
NoUpstream == [status |-> 0, errorData |-> "", data |-> Undefined, fault |-> ""]

\* The response res, sent to the request req, which saw upstream of the
\* upstream.
Delivered(res, req, upstream) ==
    [sent |-> TRUE, status |-> res.status, body |-> res.body,
     req |-> req, upstream |-> upstream]

\* The handlers suspended now.
Handlers == BagToSet(inflight)
\* The handler h is suspended, and one copy of it resumes: what is left.
Resumed(h) == inflight (-) SetToBag({h})
\* A handler suspends as h.
Suspended(bag, h) == bag (+) SetToBag({h})

\* The log with the entries older than WINDOW_MS at the time t dropped.
Recent(log, t) ==
    [c \in Clients |-> SelectSeq(log[c], LAMBDA e : e.at >= t - WINDOW_MS)]

\* The log after the gate has taken counts to counts2 for a request of
\* clientIP at the time t and called next(): the entry says whether the
\* request found its record absent or left it with a new resetTime, and
\* what resetTime the client had been told (0: none).
Admitted(log, clientIP, t, counts, counts2, told) ==
    [log EXCEPT ![clientIP] =
        Append(@, [at |-> t,
                   opened |-> \/ ~MapHas(counts, clientIP)
                              \/ counts2[clientIP].resetTime
                                     # counts[clientIP].resetTime,
                   told |-> told])]

\* The client clientIP reads the resetTime of the 429 response res.
Told(retry, clientIP, res) ==
    [retry EXCEPT ![clientIP] = DateParse(res.body.resetTime)]

\* How many handlers of the bag are suspended at pc for the client clientIP.
RECURSIVE Waiting(_, _, _, _)
Waiting(bag, handlers, clientIP, pc) ==
    IF handlers = {} THEN 0
    ELSE LET h == CHOOSE x \in handlers : TRUE
         IN  (IF h.req.client = clientIP /\ h.pc = pc THEN CopiesIn(h, bag)
              ELSE 0)
             + Waiting(bag, handlers \ {h}, clientIP, pc)

\* The count of calls after the gate has taken counts to counts2 for a
\* request of clientIP while the handlers of bag were suspended: it starts
\* anew with a new window of the observed client.
Counted(count, clientIP, counts, counts2, bag) ==
    IF /\ clientIP = Observed
       /\ \/ ~MapHas(counts, clientIP)
          \/ counts2[clientIP].resetTime # counts[clientIP].resetTime
    THEN [started |-> 0,
          carried |-> Waiting(bag, BagToSet(bag), clientIP, "import")]
    ELSE count

\* The count of calls after fetch has been called at the time t for a
\* request of clientIP: the call is inside the window of the observed
\* client's record if t is not after its resetTime.
Called(count, clientIP, counts, t) ==
    IF clientIP = Observed /\ t <= counts[clientIP].resetTime
    THEN [count EXCEPT !.started = @ + 1]
    ELSE count

\* The client clientIP gets a 429: its first since it was last admitted, or
\* one more.
ToldAgain(rejected, retry, clientIP) ==
    [rejected EXCEPT ![clientIP] =
        IF retry[clientIP] = 0 THEN 1
        ELSE IF @ < MaxRejections THEN @ + 1 ELSE @]

\* The server starts, in an environment drawn from the given ones.
Boot(keys, envs) ==
    /\ now = StartTime
    /\ advances = 0
    /\ GROQ_API_KEY \in keys
    /\ NODE_ENV \in envs
    /\ requestCounts = EmptyMap
    /\ inflight = EmptyBag
    /\ response = NoResponse
    /\ admitLog = [c \in Clients |-> <<>>]
    /\ retryAfter = [c \in Clients |-> 0]
    /\ rejections = [c \in Clients |-> 0]
    /\ calls = [started |-> 0, carried |-> 0]

\* Time passes: by a millisecond, or by the length of a window.
Tick(d) ==
    /\ advances < MaxAdvance
    /\ now' = now + d
    /\ advances' = advances + 1
    /\ response' = NoResponse
    /\ admitLog' = Recent(admitLog, now + d)
    /\ UNCHANGED <<GROQ_API_KEY, NODE_ENV, requestCounts, inflight, retryAfter,
                   rejections, calls>>

\* A request of the client clientIP arrives at /api/chat: the middleware
\* runs, and if it calls next() the handler runs up to its first await.  A
\* patient client sends no request while a handler is suspended, and keeps
\* the resetTime that a 429 tells it until it is admitted again.  At most
\* cap handlers are suspended at once.
ArriveChat(clientIP, body, patient, cap) ==
    LET gate == rateLimitMiddleware(requestCounts, clientIP, now)
        req == [client |-> clientIP, endpoint |-> "chat", body |-> body,
                fetches |-> 0]
        out == chatEntry(GROQ_API_KEY, body)
    IN  /\ patient => inflight = EmptyBag
        /\ requestCounts' = gate.requestCounts
        /\ IF ~gate.next
           THEN /\ response' = Delivered(gate.res, req, NoUpstream)
                /\ retryAfter' = IF patient
                                 THEN Told(retryAfter, clientIP, gate.res)
                                 ELSE retryAfter
                /\ rejections' = IF patient
                                 THEN ToldAgain(rejections, retryAfter, clientIP)
                                 ELSE rejections
                /\ UNCHANGED <<inflight, admitLog>>
           ELSE /\ admitLog' = Admitted(admitLog, clientIP, now, requestCounts,
                                        gate.requestCounts, retryAfter[clientIP])
                /\ retryAfter' = [retryAfter EXCEPT ![clientIP] = 0]
                /\ UNCHANGED rejections
                /\ IF out.pc = "done"
                   THEN /\ response' = Delivered(out.res, req, NoUpstream)
                        /\ UNCHANGED inflight
                   ELSE /\ BagCardinality(inflight) < cap
                        /\ response' = NoResponse
                        /\ inflight' =
                               Suspended(inflight,
                                         [pc |-> out.pc, req |-> req, status |-> 0])
        /\ calls' = Counted(calls, clientIP, requestCounts, gate.requestCounts, inflight)
        /\ UNCHANGED <<now, advances, GROQ_API_KEY, NODE_ENV>>

\* A mutant: the image route is mounted without rateLimitMiddleware.
ArriveImageUngated(clientIP, body, patient) ==
    /\ patient => inflight = EmptyBag
    /\ response' =
           Delivered(generateImage(body),
                     [client |-> clientIP, endpoint |-> "image", body |-> body,
                      fetches |-> 0],
                     NoUpstream)
    /\ UNCHANGED <<now, advances, GROQ_API_KEY, NODE_ENV, requestCounts,
                   inflight, admitLog, retryAfter, rejections, calls>>

\* A request of the client clientIP arrives at /api/generate-image: the
\* middleware runs, and if it calls next() the handler runs to its response.
ArriveImage(clientIP, body, patient) ==
    LET gate == rateLimitMiddleware(requestCounts, clientIP, now)
        req == [client |-> clientIP, endpoint |-> "image", body |-> body,
                fetches |-> 0]
    IN  /\ patient => inflight = EmptyBag
        /\ requestCounts' = gate.requestCounts
        /\ IF ~gate.next
           THEN /\ response' = Delivered(gate.res, req, NoUpstream)
                /\ retryAfter' = IF patient
                                 THEN Told(retryAfter, clientIP, gate.res)
                                 ELSE retryAfter
                /\ rejections' = IF patient
                                 THEN ToldAgain(rejections, retryAfter, clientIP)
                                 ELSE rejections
                /\ UNCHANGED admitLog
           ELSE /\ admitLog' = Admitted(admitLog, clientIP, now, requestCounts,
                                        gate.requestCounts, retryAfter[clientIP])
                /\ retryAfter' = [retryAfter EXCEPT ![clientIP] = 0]
                /\ UNCHANGED rejections
                /\ response' = Delivered(generateImage(body), req, NoUpstream)
        /\ calls' = Counted(calls, clientIP, requestCounts, gate.requestCounts, inflight)
        /\ UNCHANGED <<now, advances, GROQ_API_KEY, NODE_ENV, inflight>>

\* await import('node-fetch') resolves: the handler calls fetch (172-185)
\* and suspends on it.
ImportResolves(h) ==
    /\ h \in Handlers
    /\ h.pc = "import"
    /\ inflight' = Suspended(Resumed(h),
                             [h EXCEPT !.pc = "fetch", !.req.fetches = @ + 1])
    /\ response' = NoResponse
    /\ calls' = Called(calls, h.req.client, requestCounts, now)
    /\ UNCHANGED <<now, advances, GROQ_API_KEY, NODE_ENV, requestCounts,
                   admitLog, retryAfter, rejections>>

\* await fetch(...) resolves with an answer of the given status: the handler
\* suspends on response.text() (188) or on response.json() (203).
FetchResolves(h, status) ==
    /\ h \in Handlers
    /\ h.pc = "fetch"
    /\ inflight' = Suspended(Resumed(h),
                             [h EXCEPT !.pc = IF Ok(status) THEN "json" ELSE "text",
                                       !.status = status])
    /\ response' = NoResponse
    /\ UNCHANGED <<now, advances, GROQ_API_KEY, NODE_ENV, requestCounts,
                   admitLog, retryAfter, rejections, calls>>

\* await response.text() resolves.
TextResolves(h, errorData) ==
    /\ h \in Handlers
    /\ h.pc = "text"
    /\ response' =
           Delivered(chatUpstreamError(h.status, errorData), h.req,
                     [NoUpstream EXCEPT !.status = h.status,
                                        !.errorData = errorData])
    /\ inflight' = Resumed(h)
    /\ UNCHANGED <<now, advances, GROQ_API_KEY, NODE_ENV, requestCounts,
                   admitLog, retryAfter, rejections, calls>>

\* await response.json() resolves.
JsonResolves(h, data) ==
    /\ h \in Handlers
    /\ h.pc = "json"
    /\ response' =
           Delivered(chatRelay(NODE_ENV, data), h.req,
                     [NoUpstream EXCEPT !.status = h.status, !.data = data])
    /\ inflight' = Resumed(h)
    /\ UNCHANGED <<now, advances, GROQ_API_KEY, NODE_ENV, requestCounts,
                   admitLog, retryAfter, rejections, calls>>

\* The await a handler is suspended on rejects: the catch block answers.
AwaitRejects(h, message) ==
    /\ h \in Handlers
    /\ message \in Faults(h.pc)
    /\ response' =
           Delivered(chatCatch(NODE_ENV, message), h.req,
                     [NoUpstream EXCEPT !.status = h.status, !.fault = message])
    /\ inflight' = Resumed(h)
    /\ UNCHANGED <<now, advances, GROQ_API_KEY, NODE_ENV, requestCounts,
                   admitLog, retryAfter, rejections, calls>>

\* The steps of the server when requests come from clients with the given
\* bodies, patient or not, with at most cap handlers suspended at once, and
\* the upstream answers with the given statuses, payloads and faults.
Step(chatClients, chatBodies, imageClients, imageBodies, patient, cap, statuses, payloads, faults) ==
    \/ \E d \in {1, WINDOW_MS} : Tick(d)
    \/ \E c \in chatClients, body \in chatBodies : ArriveChat(c, body, patient, cap)
    \/ \E c \in imageClients, body \in imageBodies : ArriveImage(c, body, patient)
    \/ \E h \in Handlers : ImportResolves(h)
    \/ \E h \in Handlers, status \in statuses : FetchResolves(h, status)
    \/ \E h \in Handlers, errorData \in ErrorBodies : TextResolves(h, errorData)
    \/ \E h \in Handlers, data \in payloads : JsonResolves(h, data)
    \/ \E h \in Handlers, message \in faults : AwaitRejects(h, message)

AllFaults == UNION {Faults(pc) : pc \in {"import", "fetch", "text", "json"}}

(***************************************************************************)
(* Spec: the gate under load.  The key is set; ip1 uses both endpoints,    *)
(* ip2 the image endpoint; every request is well-formed; the upstream      *)
(* answers 200 with a completion or 429, or the connection breaks.         *)
(***************************************************************************)
Init == Boot({Str(<<"g", "s", "k">>)}, {"production"})

Next ==
    Step({"ip1"}, {Obj([messages |-> Arr(<<UserMessage>>)])},
         Clients, {Obj([prompt |-> Str(<<"a", " ", "c", "a", "t", "!">>)])},
         FALSE, MaxInFlight, {200, 429}, {Completion}, {"ECONNRESET"})

Spec == Init /\ [][Next]_vars

(***************************************************************************)
(* SpecProxy: the handlers on every input.  One patient client sends every *)
(* body of ChatBodies and ImageBodies, in every environment, and the       *)
(* upstream answers with every status, payload and fault.                  *)
(***************************************************************************)
InitProxy == Boot(ApiKeys, Environments)

NextProxy ==
    Step({"ip1"}, ChatBodies, {"ip1"}, ImageBodies, TRUE, MaxInFlight, Statuses,
         Payloads, AllFaults)

SpecProxy == InitProxy /\ [][NextProxy]_vars

(***************************************************************************)
(* SpecSanitize: the image handler on string prompts.  One client sends    *)
(* bodies of PromptBodies to /api/generate-image for as long as the gate   *)
(* lets them through; the sanitizer does not read the clock.               *)
(***************************************************************************)
InitSanitize == Boot({Str(<<"g", "s", "k">>)}, {"production"})

NextSanitize == \E body \in PromptBodies : ArriveImage("ip1", body, FALSE)

SpecSanitize == InitSanitize /\ [][NextSanitize]_vars

(***************************************************************************)
(* SpecLive: the chat handler with the progress that Node guarantees.  The *)
(* import of node-fetch is local and settles; whether and when fetch,      *)
(* response.text() and response.json() settle is up to the upstream: the   *)
(* call at server.js:172 sets no timeout and no abort signal.              *)
(***************************************************************************)
NextLive ==
    Step({"ip1"}, {Obj([messages |-> Arr(<<UserMessage>>)])},
         {"ip1"}, {Obj([prompt |-> Str(<<"a", " ", "c", "a", "t", "!">>)])},
         FALSE, MaxInFlight, {200, 429}, {Completion}, {"ECONNRESET"})

\* A handler suspended on import('node-fetch') resumes.
ImportSettles == \E h \in Handlers : ImportResolves(h)

SpecLive == Init /\ [][NextLive]_vars /\ WF_vars(ImportSettles)

(***************************************************************************)
(* SpecCalls: the upstream calls of one client.  The observed client uses  *)
(* both endpoints with well-formed requests, with or without the key set;  *)
(* the upstream answers 200 with a completion or 429, or the connection    *)
(* breaks.                                                                 *)
(***************************************************************************)
InitCalls == Boot({Undefined, Str(<<"g", "s", "k">>)}, {"production"})

NextCalls ==
    Step({Observed}, {Obj([messages |-> Arr(<<UserMessage>>)])},
         {Observed}, {Obj([prompt |-> Str(<<"a", " ", "c", "a", "t", "!">>)])},
         FALSE, MaxInFlight + 1, {200, 429}, {Completion}, {"ECONNRESET"})

SpecCalls == InitCalls /\ [][NextCalls]_vars

(***************************************************************************)
(* Properties of the gate.                                                 *)
(***************************************************************************)
\* The response r is the 429 of rateLimitMiddleware (the handler's answer to
\* an upstream 429 carries no resetTime).
GateRejected(r) ==
    r.sent /\ r.status = 429 /\ r.upstream.status = 0
           /\ "resetTime" \in DOMAIN r.body

\* This step the gate rejects a request of the client c.
RejectedStep(c) == GateRejected(response') /\ response'.req.client = c
\* This step the gate calls next() for a request of the client c.
AdmittedStep(c) == now' = now /\ admitLog'[c] # admitLog[c]
\* This step creates, replaces or changes the record of the client c.
Mutated(c) ==
    /\ MapHas(requestCounts', c)
    /\ ~MapHas(requestCounts, c) \/ requestCounts'[c] # requestCounts[c]
\* This step creates the record of the client c or gives it a new resetTime.
Opened(c) ==
    /\ MapHas(requestCounts', c)
    /\ \/ ~MapHas(requestCounts, c)
       \/ requestCounts'[c].resetTime # requestCounts[c].resetTime

\* The admissions of the client c, from its i-th logged one on, that fall
\* into the WINDOW_MS after that one.
WindowOf(c, i) ==
    {j \in i..Len(admitLog[c]) :
        admitLog[c][j].at <= admitLog[c][i].at + WINDOW_MS}

\* The logged admissions of the client c since its record was created or
\* reset.
LiveAdmissions(c) ==
    {j \in 1..Len(admitLog[c]) :
        admitLog[c][j].at >= requestCounts[c].resetTime - WINDOW_MS}

\* C1: counting from any admission that created or reset a client's record,
\* at most RATE_LIMIT requests of that client are admitted up to and
\* including the resetTime of that record.
C1_AdmittedPerWindow ==
    \A c \in Clients : \A i \in 1..Len(admitLog[c]) :
        admitLog[c][i].opened => Cardinality(WindowOf(c, i)) <= RATE_LIMIT

\* A client has used up a window (RATE_LIMIT admissions in it) and its next
\* request has just been rejected.
C1_Witness ==
    /\ GateRejected(response)
    /\ \E i \in 1..Len(admitLog[response.req.client]) :
          /\ admitLog[response.req.client][i].opened
          /\ Cardinality(WindowOf(response.req.client, i)) = RATE_LIMIT

\* C2: a 429 reports, to the millisecond, the resetTime that the client's
\* record holds, and the first request that the client sends after the
\* reported instant is admitted and leaves the record with count = 1.
C2_RejectionReportsReset ==
    [][\A c \in Clients :
          /\ RejectedStep(c) =>
                /\ MapHas(requestCounts', c)
                /\ DateParse(response'.body.resetTime)
                       = requestCounts'[c].resetTime
          /\ (retryAfter[c] # 0 /\ now > retryAfter[c]) =>
                /\ ~RejectedStep(c)
                /\ AdmittedStep(c) => requestCounts'[c].count = 1]_vars

\* A client that was told a resetTime has sent its first request after it,
\* and the request opened a new window.
C2_Witness ==
    \E c \in Clients :
        /\ admitLog[c] # <<>>
        /\ LET e == admitLog[c][Len(admitLog[c])]
           IN  e.told # 0 /\ e.at > e.told /\ e.at = now
        /\ requestCounts[c] = [count |-> 1, resetTime |-> now + WINDOW_MS]

C4_CountWithinLimit ==
    /\ [](\A c \in DOMAIN requestCounts :
             1 <= requestCounts[c].count /\ requestCounts[c].count <= RATE_LIMIT)
    /\ [][\A c \in Clients :
             (/\ MapHas(requestCounts, c)
              /\ requestCounts[c].count = RATE_LIMIT
              /\ now <= requestCounts[c].resetTime)
             => /\ ~AdmittedStep(c)
                /\ RejectedStep(c) => requestCounts' = requestCounts]_vars

\* A record stands at count = RATE_LIMIT, its window is open, and a request
\* of its client has just been rejected.
C4_Witness ==
    /\ GateRejected(response)
    /\ requestCounts[response.req.client].count = RATE_LIMIT
    /\ now <= requestCounts[response.req.client].resetTime

\* C5 as claimed: whenever a record is created, reset or incremented, its
\* resetTime is strictly greater than the time of that request.
C5_ResetTimeStrictlyAhead ==
    [][\A c \in Clients : Mutated(c) => requestCounts'[c].resetTime > now]_vars

\* C5: whenever a record is created, reset or incremented, its resetTime is
\* not before the time of that request, and it is strictly after it when the
\* record is created or reset.
C5_ResetTimeNotBehind ==
    [][\A c \in Clients :
          Mutated(c) => /\ requestCounts'[c].resetTime >= now
                        /\ Opened(c) => requestCounts'[c].resetTime > now]_vars

\* A request has just been counted at the last instant of its window:
\* now = resetTime.
C5_Witness ==
    \E c \in Clients :
        /\ MapHas(requestCounts, c)
        /\ requestCounts[c].resetTime = now
        /\ admitLog[c] # <<>>
        /\ LET e == admitLog[c][Len(admitLog[c])]
           IN  e.at = now /\ ~e.opened
        /\ requestCounts[c].count > 1

(***************************************************************************)
(* Properties of the handlers.                                             *)
(***************************************************************************)
\* The response r answers a chat request that the gate let through.
ChatAnswered(r) == r.sent /\ r.req.endpoint = "chat" /\ ~GateRejected(r)
\* The response r answers an image request that the gate let through.
ImageAnswered(r) == r.sent /\ r.req.endpoint = "image" /\ ~GateRejected(r)

\* C6: without GROQ_API_KEY (unset or empty) every chat request that the
\* gate lets through is answered 500 'API Key not found', whatever its body,
\* no fetch was called for it, and no handler is left to call one.
C6_NoKeyNoUpstreamCall ==
    GROQ_API_KEY \in {Undefined, Str(<<>>)} =>
        /\ inflight = EmptyBag
        /\ ChatAnswered(response) =>
              /\ response.status = 500
              /\ response.body = [error |-> MSG_NO_API_KEY]
              /\ response.req.fetches = 0

\* Without the key, a chat request with a well-formed body has been
\* answered 500.
C6_Witness ==
    /\ GROQ_API_KEY = Undefined
    /\ ChatAnswered(response)
    /\ response.req.body = Obj([messages |-> Arr(<<UserMessage>>)])
    /\ response.status = 500

\* messages is missing, not an array, or an empty sequence.
InvalidMessages(body) ==
    \/ Prop(body, "messages").kind # "array"
    \/ Prop(body, "messages").val = <<>>

\* C7 as claimed: with the key set, a chat request whose messages is missing,
\* not an array or empty is answered 400 'messages array required', and no
\* fetch is ever called for it.
C7_InvalidMessagesRejected ==
    Truthy(GROQ_API_KEY) =>
        /\ \A h \in Handlers : InvalidMessages(h.req.body) => h.req.fetches = 0
        /\ (ChatAnswered(response) /\ InvalidMessages(response.req.body)) =>
              /\ response.status = 400
              /\ response.body = [error |-> MSG_MESSAGES_REQUIRED]
              /\ response.req.fetches = 0

\* prompt is missing or the empty string.
PromptMissingOrEmpty(body) ==
    \/ Prop(body, "prompt").kind = "undefined"
    \/ Prop(body, "prompt") = Str(<<>>)

\* C8 as claimed: an image request that the gate lets through is answered
\* 400 'Prompt is required' exactly when prompt is missing or "", and with
\* the success response (imageUrl, prompt) on every other prompt.
C8_ImageFailsOnlyOnEmptyPrompt ==
    ImageAnswered(response) =>
        IF PromptMissingOrEmpty(response.req.body)
        THEN /\ response.status = 400
             /\ response.body = [error |-> MSG_PROMPT_REQUIRED]
        ELSE /\ response.status = 200
             /\ DOMAIN response.body = {"success", "imageUrl", "prompt"}

\* The user-facing text of the category of a non-2xx upstream status:
\* auth_failure, upstream_overloaded, invalid_input, upstream_error.
CategoryMessage(status) ==
    IF status = 401 THEN MSG_AUTH_FAILURE
    ELSE IF status = 429 THEN MSG_UPSTREAM_OVERLOADED
    ELSE IF status = 400 THEN MSG_BAD_QUESTION
    ELSE MSG_UPSTREAM_ERROR

\* The response r answers a chat request whose fetch resolved with a
\* non-2xx status.
UpstreamFailed(r) ==
    /\ r.sent
    /\ r.req.endpoint = "chat"
    /\ r.upstream.status # 0
    /\ r.upstream.status < 200 \/ r.upstream.status > 299

\* C9 as claimed: whenever the upstream answers with a non-2xx status, the
\* chat handler responds with that status and with a body that holds the
\* text of the mapped category and nothing else.
C9_UpstreamErrorMapped ==
    UpstreamFailed(response) =>
        /\ response.status = response.upstream.status
        /\ response.body = [error |-> CategoryMessage(response.upstream.status)]

\* C9: whenever the upstream answers with a non-2xx status and
\* response.text() resolves, the chat handler responds with that status and
\* with a body that holds the text of the mapped category and nothing else,
\* not the upstream's error body; when response.text() rejects, it responds
\* with the internal error (500) of the catch block.
C9_UpstreamErrorMappedWhenRead ==
    UpstreamFailed(response) =>
        IF response.upstream.fault = ""
        THEN /\ response.status = response.upstream.status
             /\ response.body
                    = [error |-> CategoryMessage(response.upstream.status)]
             /\ response.body.error # response.upstream.errorData
        ELSE /\ response.status = 500
             /\ response.body.error = MSG_SERVER_ERROR

\* The upstream answered 401, its body was read, and the caller got 401 with
\* the authentication text.
C9_Witness ==
    /\ UpstreamFailed(response)
    /\ response.upstream.status = 401
    /\ response.upstream.fault = ""
    /\ response.upstream.errorData \in ErrorBodies
    /\ response.status = 401
    /\ response.body = [error |-> MSG_AUTH_FAILURE]

\* The payload has a first choice with a (truthy) message.
HasFirstChoiceWithMessage(data) ==
    /\ data.kind = "object"
    /\ "choices" \in DOMAIN data.val
    /\ data.val["choices"].kind = "array"
    /\ Len(data.val["choices"].val) >= 1
    /\ data.val["choices"].val[1].kind = "object"
    /\ "message" \in DOMAIN data.val["choices"].val[1].val
    /\ Truthy(data.val["choices"].val[1].val["message"])

\* The response r answers a chat request whose fetch resolved with a 2xx
\* status and whose body response.json() has parsed.
UpstreamSucceeded(r) ==
    /\ r.sent
    /\ r.req.endpoint = "chat"
    /\ 200 <= r.upstream.status /\ r.upstream.status <= 299
    /\ r.upstream.fault = ""

\* C10 as claimed: whenever the upstream answers 2xx with a parsed payload,
\* the chat handler relays the payload unchanged if it has a first choice
\* with a message, and otherwise responds 500 with the text of
\* malformed_upstream_response.
C10_RelayIffWellFormed ==
    UpstreamSucceeded(response) =>
        IF HasFirstChoiceWithMessage(response.upstream.data)
        THEN response.status = 200 /\ response.body = response.upstream.data
        ELSE /\ response.status = 500
             /\ response.body = [error |-> MSG_INCOMPLETE_DATA]

\* The sequence s starts or ends with whitespace.
Untrimmed(s) == s # <<>> /\ (s[1] \in WhiteSpace \/ s[Len(s)] \in WhiteSpace)

\* The sequence out is the whitelisted characters of the sequence in, in
\* their order, without the whitespace at either end: the whitelisted
\* characters are some whitespace, then out, then some whitespace, and out
\* neither starts nor ends with whitespace.
IsSanitized(in, out) ==
    LET kept == SelectSeq(in, LAMBDA ch : ch \in WordChars \cup WhiteSpace \cup {",", "-"})
    IN  /\ ~Untrimmed(out)
        /\ \E i \in 0..Len(kept) :
              /\ i + Len(out) <= Len(kept)
              /\ out = SubSeq(kept, i + 1, i + Len(out))
              /\ \A k \in (1..i) \cup ((i + Len(out) + 1)..Len(kept)) :
                    kept[k] \in WhiteSpace

\* The response r is the success response to an image request.
ImageSucceeded(r) == ImageAnswered(r) /\ r.status = 200

\* "a cat sitting, on-a-mat", with one space between cat and sitting.
ExampleSingleSpace ==
    <<"a", " ", "c", "a", "t", " ", "s", "i", "t", "t", "i", "n", "g", ",",
      " ", "o", "n", "-", "a", "-", "m", "a", "t">>
\* "a cat  sitting, on-a-mat": both spaces around "@#$" are kept.
ExampleBothSpaces ==
    <<"a", " ", "c", "a", "t", " ", " ", "s", "i", "t", "t", "i", "n", "g",
      ",", " ", "o", "n", "-", "a", "-", "m", "a", "t">>

\* C11 as claimed: the prompt of a success response is the whitelisted
\* characters of the request's prompt, in their order, trimmed; for the
\* example prompt it is "a cat sitting, on-a-mat".
C11_SanitizerExample ==
    ImageSucceeded(response) =>
        /\ IsSanitized(response.req.body.val["prompt"].val,
                       response.body.prompt)
        /\ response.req.body.val["prompt"].val = ExamplePrompt
               => response.body.prompt = ExampleSingleSpace

\* C11: the prompt of a success response is the whitelisted characters of
\* the request's prompt, in their order, trimmed; for the example prompt it
\* is "a cat  sitting, on-a-mat", with the two spaces that stood around
\* "@#$".
C11_SanitizerKeepsBothSpaces ==
    ImageSucceeded(response) =>
        /\ IsSanitized(response.req.body.val["prompt"].val,
                       response.body.prompt)
        /\ response.req.body.val["prompt"].val = ExamplePrompt
               => response.body.prompt = ExampleBothSpaces

\* The example prompt has been answered with the success response.
C11_Witness ==
    /\ ImageSucceeded(response)
    /\ response.req.body.val["prompt"].val = ExamplePrompt

\* A chat handler is suspended on its upstream call.
CallPending == \E h \in Handlers : h.pc = "fetch"

\* C12 as claimed: whenever a chat handler is suspended on its upstream
\* call, a response to a chat request that made exactly one upstream call
\* is eventually sent (by the upstream's answer, or by a timeout when the
\* upstream never answers), and no request ever makes a second call.
C12_EveryCallAnswered ==
    /\ CallPending ~> (ChatAnswered(response) /\ response.req.fetches = 1)
    /\ [](\A h \in Handlers : h.req.fetches <= 1)

\* The response r comes from a catch block: an await of the chat handler
\* rejected, or reading data.choices threw, or prompt.replace threw.
Faulted(r) ==
    /\ r.sent
    /\ ~GateRejected(r)
    /\ \/ r.req.endpoint = "chat" /\ r.upstream.fault # ""
       \/ UpstreamSucceeded(r) /\ Throws(r.upstream.data)
       \/ /\ r.req.endpoint = "image"
          /\ Truthy(Prop(r.req.body, "prompt"))
          /\ Prop(r.req.body, "prompt").kind # "string"

\* The internal-error response of the handler behind the given endpoint.
GenericError(endpoint) ==
    IF endpoint = "chat" THEN Send(500, [error |-> MSG_SERVER_ERROR])
    ELSE Send(500, [error |-> MSG_IMAGE_ERROR])

\* C13 as claimed: the response to a fault is the handler's generic
\* internal error and nothing else, whatever the fault and whatever NODE_ENV
\* is, so that it is the same for any two faults.
C13_FaultResponseGeneric ==
    Faulted(response) =>
        /\ response.status = GenericError(response.req.endpoint).status
        /\ response.body = GenericError(response.req.endpoint).body

\* C13: the response to a fault is the handler's generic internal error and
\* nothing else, whatever the fault, unless NODE_ENV is development and the
\* fault is in the chat handler: then the body has the fault's message as
\* details beside the generic text.
C13_FaultResponseGenericOutsideDevelopment ==
    Faulted(response) =>
        /\ response.status = 500
        /\ response.body.error = GenericError(response.req.endpoint).body.error
        /\ IF NODE_ENV = "development" /\ response.req.endpoint = "chat"
           THEN /\ DOMAIN response.body = {"error", "details"}
                /\ response.body.details
                       = IF response.upstream.fault # ""
                         THEN response.upstream.fault ELSE TYPE_ERROR_NULL
           ELSE DOMAIN response.body = {"error"}

\* In production, fetch has rejected and the caller got the generic error.
C13_Witness ==
    /\ NODE_ENV = "production"
    /\ Faulted(response)
    /\ response.upstream.fault = "ECONNRESET"
    /\ response.body = [error |-> MSG_SERVER_ERROR]

(***************************************************************************)
(* Properties of the gate and the handlers together.                       *)
(***************************************************************************)
\* The window of the client c is open and used up.
Blocked(c) ==
    /\ MapHas(requestCounts, c)
    /\ requestCounts[c].count = RATE_LIMIT
    /\ now <= requestCounts[c].resetTime

\* This step a request of the client c arrives and is answered at once.
AnsweredOnArrival(c) ==
    /\ response'.sent
    /\ response'.req.client = c
    /\ response'.upstream = NoUpstream

\* A rejected request reaches no handler, and no request calls fetch twice:
\* a request that arrives while its client is blocked is answered 429 by
\* the gate even when the key is not set, a step that rejects a request
\* suspends no handler and calls no fetch, and no request has called fetch
\* more than once.
GateBeforeProxy(c) ==
    /\ (Blocked(c) /\ AnsweredOnArrival(c)) => RejectedStep(c)
    /\ RejectedStep(c) =>
          /\ inflight' = inflight
          /\ calls' = calls
          /\ response'.req.fetches = 0
    /\ \A h \in BagToSet(inflight') : h.req.fetches <= 1
    /\ response'.sent => response'.req.fetches <= 1

\* C14 as claimed: the gate runs before the handlers, no request calls
\* fetch twice, and the calls of fetch started inside one window of a client
\* never exceed RATE_LIMIT.
C14_CallsWithinLimit ==
    /\ [][GateBeforeProxy(Observed)]_vars
    /\ [](calls.started <= RATE_LIMIT)

\* C14: the gate runs before the handlers, no request calls fetch twice,
\* and the calls of fetch started inside one window of a client never
\* exceed RATE_LIMIT plus the number of its handlers that were still waiting
\* for import('node-fetch') when the window began.
C14_CallsWithinLimitAndCarried ==
    /\ [][GateBeforeProxy(Observed)]_vars
    /\ [](calls.started <= RATE_LIMIT + calls.carried)
    /\ [](calls.started > RATE_LIMIT => calls.carried > 0)

\* RATE_LIMIT calls of fetch have started inside one window of the client,
\* none of them carried over, and its next request has just been rejected.
C14_Witness ==
    /\ GateRejected(response)
    /\ response.req.client = Observed
    /\ calls = [started |-> RATE_LIMIT, carried |-> 0]

\* This step a request of the client c goes through rateLimitMiddleware.
Arrives(c) == AdmittedStep(c) \/ RejectedStep(c)

\* C15: a request of a client whose record's resetTime is before now is
\* admitted and leaves the record at count = 1, resetTime = now + WINDOW_MS,
\* whatever the count was; a request at now = resetTime is rejected, the
\* record unchanged, if count = RATE_LIMIT, and otherwise admitted with
\* count one higher and resetTime unchanged; and a record is created or
\* changed only by a step in which a request of its client arrives.
C15_LazyStrictRollover ==
    [][\A c \in Clients :
          /\ (Arrives(c) /\ MapHas(requestCounts, c)) =>
                LET clientData == requestCounts[c]
                IN  /\ now > clientData.resetTime =>
                          /\ AdmittedStep(c)
                          /\ requestCounts'[c]
                                 = [count |-> 1, resetTime |-> now + WINDOW_MS]
                    /\ (now = clientData.resetTime
                           /\ clientData.count = RATE_LIMIT) =>
                          /\ RejectedStep(c)
                          /\ requestCounts'[c] = clientData
                    /\ (now = clientData.resetTime
                           /\ clientData.count < RATE_LIMIT) =>
                          /\ AdmittedStep(c)
                          /\ requestCounts'[c]
                                 = [count |-> clientData.count + 1,
                                    resetTime |-> clientData.resetTime]
          /\ Mutated(c) => Arrives(c)
          /\ ~Arrives(c) =>
                /\ MapHas(requestCounts', c) = MapHas(requestCounts, c)
                /\ MapHas(requestCounts, c)
                       => requestCounts'[c] = requestCounts[c]]_vars

\* A client whose earlier admission is still in the log has just sent a
\* request after its resetTime: the record is new, count = 1, while the
\* other client's record stands as it was.
C15_Witness ==
    \E c \in Clients :
        /\ MapHas(requestCounts, c)
        /\ requestCounts[c] = [count |-> 1, resetTime |-> now + WINDOW_MS]
        /\ Len(admitLog[c]) >= 2
        /\ admitLog[c][Len(admitLog[c])] = [at |-> now, opened |-> TRUE, told |-> 0]
        /\ admitLog[c][Len(admitLog[c]) - 1].at < now
        /\ \E d \in Clients \ {c} :
              MapHas(requestCounts, d) /\ requestCounts[d].resetTime < now

\* C16: a step that rejects a request leaves requestCounts as it is; every
\* further 429 tells a blocked client the resetTime that the first one told
\* it; and a request that the client sends after that instant is admitted,
\* however many of its requests were rejected before.
C16_RejectionsDoNotPostpone ==
    [][\A c \in Clients :
          /\ RejectedStep(c) =>
                /\ requestCounts' = requestCounts
                /\ retryAfter[c] # 0 => retryAfter'[c] = retryAfter[c]
          /\ (retryAfter[c] # 0 /\ now > retryAfter[c] /\ Arrives(c))
                => AdmittedStep(c)]_vars

\* A client was rejected MaxRejections times or more, was told one and the
\* same resetTime, and its first request after that instant has just been
\* admitted.
C16_Witness ==
    \E c \in Clients :
        /\ rejections[c] = MaxRejections
        /\ retryAfter[c] = 0
        /\ admitLog[c] # <<>>
        /\ LET e == admitLog[c][Len(admitLog[c])]
           IN  e.told # 0 /\ e.at = now /\ e.at > e.told /\ e.opened

\* This step the image handler answers a request of the client c.
ImageHandled(c) ==
    /\ ImageAnswered(response')
    /\ response'.req.client = c

\* This step the chat handler starts on a request of the client c: it
\* answers it at once, or it suspends.
ChatHandled(c) ==
    \/ /\ ChatAnswered(response')
       /\ response'.req.client = c
       /\ response'.upstream = NoUpstream
    \/ \E h \in BagToSet(inflight') :
          /\ h.req.client = c
          /\ h.pc = "import"
          /\ CopiesIn(h, inflight') > CopiesIn(h, inflight)

\* C17: the requests of a client to /api/chat and to /api/generate-image
\* are counted in one record: while the window is open, count is the number
\* of the client's admissions since it began, whatever their endpoint, and
\* is at most RATE_LIMIT; every request that reaches either handler has
\* opened a window or raised count by one; and a client whose count stands
\* at RATE_LIMIT in an open window is rejected at both endpoints.
C17_SharedQuota ==
    /\ [](\A c \in Clients :
             (MapHas(requestCounts, c) /\ now <= requestCounts[c].resetTime)
             => /\ Cardinality(LiveAdmissions(c)) = requestCounts[c].count
                /\ requestCounts[c].count <= RATE_LIMIT)
    /\ [][\A c \in Clients :
             /\ (ImageHandled(c) \/ ChatHandled(c)) =>
                   /\ AdmittedStep(c)
                   /\ \/ Opened(c)
                      \/ requestCounts'[c].count = requestCounts[c].count + 1
             /\ Blocked(c) => ~(ImageHandled(c) \/ ChatHandled(c))]_vars

\* Within one instant a client has a chat request suspended, has used up
\* its window, and its request to the image endpoint has just been rejected.
C17_Witness ==
    /\ advances = 0
    /\ GateRejected(response)
    /\ response.req.endpoint = "image"
    /\ \E h \in Handlers : h.req.client = response.req.client
    /\ requestCounts[response.req.client].count = RATE_LIMIT

\* The response r tells of a failure.
Failed(r) == r.sent /\ r.status >= 400

\* C18: a request that reaches a handler has been counted (it opened a
\* window with count = 1 or raised count by one) also when the handler
\* answers it with a failure at once; a step that resumes a suspended
\* handler, whatever it answers, leaves requestCounts as it is; and no step
\* lowers the count of a record whose resetTime it keeps.
C18_QuotaConsumedAtAdmission ==
    [][/\ \A c \in Clients :
             /\ ((ImageHandled(c) \/ ChatHandled(c)) /\ Failed(response')) =>
                   /\ MapHas(requestCounts', c)
                   /\ IF Opened(c) THEN requestCounts'[c].count = 1
                      ELSE requestCounts'[c].count = requestCounts[c].count + 1
             /\ MapHas(requestCounts, c) =>
                   /\ MapHas(requestCounts', c)
                   /\ requestCounts'[c].resetTime = requestCounts[c].resetTime
                         => requestCounts'[c].count >= requestCounts[c].count
       /\ inflight' # inflight /\ BagCardinality(inflight') <= BagCardinality(inflight)
             => requestCounts' = requestCounts]_vars

\* The only request of a client so far was admitted, the upstream answered
\* it 401, the caller got the failure, and the record still counts it.
C18_Witness ==
    /\ UpstreamFailed(response)
    /\ response.status = 401
    /\ advances = 0
    /\ Len(admitLog[response.req.client]) = 1
    /\ requestCounts[response.req.client]
           = [count |-> 1, resetTime |-> now + WINDOW_MS]

\* C19: the admissions of one client inside any time interval of length
\* WINDOW_MS, wherever it begins, number at most 2 * RATE_LIMIT.
C19_AtMostTwiceInAnyInterval ==
    \A c \in Clients : \A i \in 1..Len(admitLog[c]) :
        Cardinality(WindowOf(c, i)) <= 2 * RATE_LIMIT

\* Inside an interval of length WINDOW_MS that begins after a window was
\* opened, a client has been admitted 2 * RATE_LIMIT - 1 times, more than
\* RATE_LIMIT: at the end of that window and at the start of the next.
C19_Witness ==
    \E c \in Clients : \E i \in 1..Len(admitLog[c]) :
        /\ ~admitLog[c][i].opened
        /\ Cardinality(WindowOf(c, i)) = 2 * RATE_LIMIT - 1
        /\ 2 * RATE_LIMIT - 1 > RATE_LIMIT

====
